---- MODULE Spec2Model ----
(***************************************************************************)
(* The tritium-desorption notebook (demo.ipynb) as a state machine: the    *)
(* cells run top to bottom, each remote call of the twinlab client blocks  *)
(* until it returns or raises, and an exception ends the run.              *)
(***************************************************************************)
EXTENDS Integers, Sequences, FiniteSets, TLC

VARIABLES
    pc,             \* index into Cells of the cell that runs next
    status,         \* "ready" | "waiting" | "failed" | "done"
    failed_at,      \* the cell that raised, "" while none has
    log,            \* the remote operations issued so far, in order
    inflight,       \* the remote operations issued and not yet answered
    datasets,       \* remote service: ids of the dataset resources
    emulators,      \* remote service: ids of the emulator resources
    emulator_dir,   \* path, a sequence of characters
    file_eval,      \* path, a sequence of characters
    dataset_id,
    df_train,
    df_eval,
    df_grid,        \* number of rows of the grid file
    uploaded,       \* the table handed to dataset.upload
    inputs,
    outputs,
    emulator_id,
    train_request,  \* what emulator.train was called with
    df_mean,
    df_std,
    params,         \* the parameters of the final plot
    artists         \* what the final plot drew, in drawing order

vars == <<pc, status, failed_at, log, inflight, datasets, emulators,
          emulator_dir, file_eval, dataset_id, df_train, df_eval, df_grid,
          uploaded, inputs, outputs, emulator_id, train_request, df_mean,
          df_std, params, artists>>

config_vars == <<emulator_dir, file_eval, dataset_id>>
data_vars   == <<df_train, df_eval, df_grid>>
remote_vars == <<datasets, emulators>>
call_vars   == <<log, inflight>>
train_vars  == <<inputs, outputs, emulator_id, train_request>>
pred_vars   == <<df_mean, df_std>>
plot_vars   == <<params, artists>>

(***************************************************************************)
(* Bounds of the model.                                                    *)
(***************************************************************************)
MaxY        == 151   \* most y columns of a file, most rows of the grid file
MaxRows     == 2     \* most rows of the evaluation file and of a prediction
MaxExamples == 2     \* largest number_of_model_examples tried
MaxSigs     == 2     \* longest nsigs tried
MaxBlur     == 2     \* most blur boundaries tried

Min(a, b) == IF a <= b THEN a ELSE b

(***************************************************************************)
(* Strings that are concatenated or joined are sequences of characters.    *)
(***************************************************************************)
Sep == "/"
s_resources == <<"r", "e", "s", "o", "u", "r", "c", "e", "s">>
s_campaigns == <<"c", "a", "m", "p", "a", "i", "g", "n", "s">>
s_ukaea     == <<"u", "k", "a", "e", "a">>
s_test_csv  == <<"t", "e", "s", "t", ".", "c", "s", "v">>

\* os.path.join(a, b) of posixpath
os_path_join(a, b) ==
    IF b # <<>> /\ b[1] = Sep THEN b
    ELSE IF a = <<>> \/ a[Len(a)] = Sep THEN a \o b
    ELSE a \o <<Sep>> \o b

\* The campaign directory names tried: the notebook's, and the same name
\* written with a trailing separator.
CampaignNames == {s_ukaea, s_ukaea \o <<Sep>>}

(***************************************************************************)
(* Tables.  A table is known by its columns and its number of rows; its    *)
(* columns are some of the five parameters and y0 .. y(ny-1).              *)
(***************************************************************************)
Col(prefix, i) == <<prefix, i>>

input_columns ==
    <<Col("E", 1), Col("E", 2), Col("E", 3), Col("n", 1), Col("n", 2)>>

Range(s) == {s[i] : i \in DOMAIN s}

Table(ins, ny, rows) == [ins |-> ins, ny |-> ny, rows |-> rows]

NoTable == Table({}, 0, 0)

Columns(t) == t.ins \cup {Col("y", i) : i \in 0 .. (t.ny - 1)}

YCounts == (MaxY - 1) .. MaxY

ParameterSets == {Range(input_columns), Range(input_columns) \ {Col("n", 2)}}

TrainSlice == 1000

\* pd.read_csv(file_train).iloc[:1000, :]
read_train(file) == Table(file.ins, file.ny, Min(file.rows, TrainSlice))

TrainFiles == {Table(ins, ny, rows) : ins \in ParameterSets, ny \in YCounts,
                                      rows \in {TrainSlice + 1}}

EvalFiles == {Table(ins, ny, rows) : ins \in ParameterSets, ny \in YCounts,
                                     rows \in 0 .. MaxRows}

GridFiles == YCounts

\* Mutant: the range runs one past the grid.
output_columns_one_more(n) == [k \in 1 .. (n + 1) |-> Col("y", k - 1)]

\* [f"y{i}" for i in range(len(df_grid))]
output_columns(n) == [k \in 1 .. n |-> Col("y", k - 1)]

(***************************************************************************)
(* The cells of the notebook, in the order they run.                       *)
(***************************************************************************)
\* Mutant: the datasets are listed before the upload.
Cells_listing_first ==
    <<"parameters", "load", "list_datasets", "dataset.upload",
      "dataset.summarise", "columns", "emulator.train", "list_emulators",
      "emulator.summarise", "emulator.predict", "plot_examples",
      "plot_results", "emulator.delete", "dataset.delete">>

\* Mutant: the emulator is deleted before the prediction is asked for.
Cells_predict_after_delete ==
    <<"parameters", "load", "dataset.upload", "list_datasets",
      "dataset.summarise", "columns", "emulator.train", "list_emulators",
      "emulator.summarise", "emulator.delete", "emulator.predict",
      "plot_examples", "plot_results", "dataset.delete">>

\* Mutant: the dataset is deleted before the emulator trained on it.
Cells_dataset_deleted_first ==
    <<"parameters", "load", "dataset.upload", "list_datasets",
      "dataset.summarise", "columns", "emulator.train", "list_emulators",
      "emulator.summarise", "emulator.predict", "plot_examples",
      "plot_results", "dataset.delete", "emulator.delete">>

Cells ==
    <<"parameters", "load", "dataset.upload", "list_datasets",
      "dataset.summarise", "columns", "emulator.train", "list_emulators",
      "emulator.summarise", "emulator.predict", "plot_examples",
      "plot_results", "emulator.delete", "dataset.delete">>

AtCell(name) == status = "ready" /\ pc \in DOMAIN Cells /\ Cells[pc] = name

\* the state of the run once the cell at pc has finished without raising
NextStatus == IF pc + 1 > Len(Cells) THEN "done" ELSE "ready"

Completes ==
    /\ pc' = pc + 1
    /\ status' = NextStatus
    /\ failed_at' = failed_at

\* Mutant: the exception is caught and the cell is run again.
Raises_and_retries ==
    /\ pc' = pc
    /\ status' = "ready"
    /\ failed_at' = Cells[pc]

\* an exception leaves the cell; nothing in the notebook catches it
Raises ==
    /\ pc' = pc
    /\ status' = "failed"
    /\ failed_at' = Cells[pc]

Init ==
    /\ pc = 1
    /\ status = "ready"
    /\ failed_at = ""
    /\ log = <<>>
    /\ inflight = {}
    /\ datasets \in SUBSET {"tritium_desorption"}
    /\ emulators \in SUBSET {"tritium_desorption"}
    /\ emulator_dir = <<>>
    /\ file_eval = <<>>
    /\ dataset_id = ""
    /\ df_train = NoTable
    /\ df_eval = NoTable
    /\ df_grid = 0
    /\ uploaded = NoTable
    /\ inputs = <<>>
    /\ outputs = <<>>
    /\ emulator_id = ""
    /\ train_request = [dataset |-> "", inputs |-> <<>>, outputs |-> <<>>]
    /\ df_mean = NoTable
    /\ df_std = NoTable
    /\ params = [plot_eval |-> FALSE, plot_model_mean |-> FALSE,
                 plot_model_bands |-> FALSE, plot_model_blur |-> FALSE,
                 nsigs |-> 0, dys |-> 0, number_of_model_examples |-> 0]
    /\ artists = <<>>

(***************************************************************************)
(* Local cells before the first remote call.                               *)
(***************************************************************************)
\* Files and file paths; Parameters
parameters ==
    /\ AtCell("parameters")
    /\ \E campaign \in CampaignNames :
          LET dir == os_path_join(os_path_join(s_resources, s_campaigns),
                                  campaign)
          IN  /\ emulator_dir' = dir
              /\ file_eval' = os_path_join(dir, s_test_csv)
    /\ dataset_id' = "tritium_desorption"
    /\ Completes
    /\ UNCHANGED <<call_vars, remote_vars, data_vars, uploaded, train_vars,
                   pred_vars, plot_vars>>

\* Load the necessary data from .csv files
load ==
    /\ AtCell("load")
    /\ \E ft \in TrainFiles, fe \in EvalFiles, fg \in GridFiles :
          /\ df_train' = read_train(ft)
          /\ df_eval' = fe
          /\ df_grid' = fg
    /\ Completes
    /\ UNCHANGED <<call_vars, remote_vars, config_vars, uploaded, train_vars,
                   pred_vars, plot_vars>>

\* inputs = [...]; outputs = [...]
columns ==
    /\ AtCell("columns")
    /\ inputs' = input_columns
    /\ outputs' = output_columns(df_grid)
    /\ Completes
    /\ UNCHANGED <<call_vars, remote_vars, config_vars, data_vars, uploaded,
                   emulator_id, train_request, pred_vars, plot_vars>>

(***************************************************************************)
(* Remote calls.  A call is issued, and the cell waits until the service   *)
(* answers or the client raises.                                           *)
(***************************************************************************)
Issue(op) ==
    /\ AtCell(op)
    /\ log' = Append(log, op)
    /\ inflight' = inflight \cup {op}
    /\ pc' = pc
    /\ status' = "waiting"
    /\ failed_at' = failed_at

\* dataset = tl.Dataset(dataset_id); dataset.upload(df_train)
dataset_upload ==
    /\ Issue("dataset.upload")
    /\ uploaded' = df_train
    /\ UNCHANGED <<remote_vars, config_vars, data_vars, train_vars,
                   pred_vars, plot_vars>>

\* what a call without local effect leaves alone
call_frame == <<remote_vars, config_vars, data_vars, uploaded, train_vars,
                pred_vars, plot_vars>>

\* _ = tl.list_datasets(verbose=True)
list_datasets ==
    /\ Issue("list_datasets")
    /\ UNCHANGED call_frame

\* _ = dataset.summarise(verbose=True)
dataset_summarise ==
    /\ Issue("dataset.summarise")
    /\ UNCHANGED call_frame

\* _ = tl.list_emulators(verbose=True)
list_emulators ==
    /\ Issue("list_emulators")
    /\ UNCHANGED call_frame

\* _ = emulator.summarise(verbose=False)
emulator_summarise ==
    /\ Issue("emulator.summarise")
    /\ UNCHANGED call_frame

\* df_mean, df_std = emulator.predict(df_eval, verbose=False)
emulator_predict ==
    /\ Issue("emulator.predict")
    /\ UNCHANGED call_frame

\* emulator.delete(verbose=True)
emulator_delete ==
    /\ Issue("emulator.delete")
    /\ UNCHANGED call_frame

\* dataset.delete(verbose=True)
dataset_delete ==
    /\ Issue("dataset.delete")
    /\ UNCHANGED call_frame

\* emulator_id = dataset_id; inputs; outputs; emulator = tl.Emulator(..);
\* emulator.train(dataset, inputs, outputs, params)
emulator_train ==
    /\ Issue("emulator.train")
    /\ emulator_id' = dataset_id
    /\ inputs' = input_columns
    /\ outputs' = output_columns(df_grid)
    /\ train_request' = [dataset |-> dataset_id, inputs |-> inputs',
                         outputs |-> outputs']
    /\ UNCHANGED <<remote_vars, config_vars, data_vars, uploaded, pred_vars,
                   plot_vars>>

(***************************************************************************)
(* The remote service, as far as the notebook can tell: named dataset and  *)
(* emulator resources that upload and train create and delete destroys.    *)
(***************************************************************************)
remote_datasets(op, ds, id) ==
    IF op = "dataset.upload" THEN ds \cup {id}
    ELSE IF op = "dataset.delete" THEN ds \ {id}
    ELSE ds

remote_emulators(op, em, id) ==
    IF op = "emulator.train" THEN em \cup {id}
    ELSE IF op = "emulator.delete" THEN em \ {id}
    ELSE em

\* The tables a prediction may come back as: the service decides their shape.
Predictions == {Table({}, ny, rows) : ny \in YCounts, rows \in 0 .. MaxRows}

\* the outstanding call returns and the cell runs to its end
returns ==
    /\ status = "waiting"
    /\ \E op \in inflight :
          /\ inflight' = inflight \ {op}
          /\ datasets' = remote_datasets(op, datasets, dataset_id)
          /\ emulators' = remote_emulators(op, emulators, emulator_id)
          /\ IF op = "emulator.predict"
             THEN \E mean \in Predictions, std \in Predictions :
                     /\ df_mean' = mean
                     /\ df_std' = std
             ELSE UNCHANGED pred_vars
    /\ Completes
    /\ UNCHANGED <<log, config_vars, data_vars, uploaded, train_vars,
                   plot_vars>>

\* the outstanding call raises: no cell has a try/except around its call
raises ==
    /\ status = "waiting"
    /\ inflight # {}
    /\ inflight' = {}
    /\ Raises
    /\ UNCHANGED <<log, remote_vars, config_vars, data_vars, uploaded,
                   train_vars, pred_vars, plot_vars>>

(***************************************************************************)
(* The two plots.                                                          *)
(***************************************************************************)
\* ys = {f"y{i}": ... for i in [0, 100, 150]}
plotted_ys == {Col("y", 0), Col("y", 100), Col("y", 150)}

\* plt.errorbar(x, y, yerr=..) of the matplotlib the notebook's Python 3.11
\* kernel runs: yerr must broadcast to (2, len(y)), so it has the length of
\* y or the length 1
errorbar_yerr_ok(n_y, n_yerr) == n_yerr = n_y \/ n_yerr = 1

\* every column the loop selects exists, errorbar gets x and y of one length
\* and a yerr that broadcasts to y
plot_examples_ok ==
    /\ Range(input_columns) \subseteq Columns(df_eval)
    /\ plotted_ys \subseteq Columns(df_mean)
    /\ plotted_ys \subseteq Columns(df_std)
    /\ df_eval.rows = df_mean.rows
    /\ errorbar_yerr_ok(df_mean.rows, df_std.rows)
    /\ Range(input_columns) \subseteq Columns(df_train)
    /\ plotted_ys \subseteq Columns(df_train)

plot_examples ==
    /\ AtCell("plot_examples")
    /\ IF plot_examples_ok THEN Completes ELSE Raises
    /\ UNCHANGED <<call_vars, remote_vars, config_vars, data_vars, uploaded,
                   train_vars, pred_vars, plot_vars>>

NoLabel == "None"

Artist(kind, color, label) == [kind |-> kind, color |-> color, label |-> label]

number_of_training_examples == 0

PlotParams ==
    [plot_eval : BOOLEAN, plot_model_mean : BOOLEAN,
     plot_model_bands : BOOLEAN, plot_model_blur : BOOLEAN,
     nsigs : 1 .. MaxSigs, dys : 1 .. MaxBlur,
     number_of_model_examples : 1 .. MaxExamples]

\* if (plot_model_blur or plot_model_bands) and not plot_model_mean
legend_placeholder(p) ==
    IF (p.plot_model_blur \/ p.plot_model_bands) /\ ~p.plot_model_mean
    THEN <<Artist("fill_between", "model_color", "Model predictions")>>
    ELSE <<>>

\* for example in range(number_of_training_examples)
training_artists(n) ==
    [k \in 1 .. n |->
        Artist("plot", "black",
               IF k - 1 = 0 THEN "Example training data" ELSE NoLabel)]

\* plot_eval and (file_eval == emulator_dir + "test.csv")
draws_test_data(p) == p.plot_eval /\ file_eval = emulator_dir \o s_test_csv

\* one pass of the loop over the model predictions
model_artists(p, example) ==
    (IF draws_test_data(p)
     THEN <<Artist("plot", "black",
                   IF example = 0 THEN "Test data" ELSE NoLabel)>>
     ELSE <<>>)
    \o
    (IF p.plot_model_bands
     THEN [k \in 1 .. p.nsigs |->
             Artist("fill_between", "model_color",
                    IF (k - 1 = 0) /\ (example = 0)
                    THEN "Model predictions" ELSE NoLabel)]
     ELSE <<>>)
    \o
    (IF p.plot_model_blur /\ ~p.plot_model_bands
     THEN [k \in 1 .. p.dys |->
             Artist("fill_between", "model_color",
                    IF (k - 1 = 0) /\ (example = 0)
                    THEN "Model predictions" ELSE NoLabel)]
     ELSE <<>>)
    \o
    (IF p.plot_model_mean
     THEN <<Artist("plot", "model_color",
                   IF (example = 0) /\ (~p.plot_model_bands)
                                    /\ (~p.plot_model_blur)
                   THEN "Model predictions" ELSE NoLabel)>>
     ELSE <<>>)

RECURSIVE model_loop(_, _)
model_loop(p, n) ==
    IF n = 0 THEN <<>>
    ELSE model_loop(p, n - 1) \o model_artists(p, n - 1)

\* How many passes of the model loop end without an exception: a pass raises
\* before it draws, on a missing column (KeyError) or a missing row
\* (IndexError) of df_mean, df_std or, with the test data, df_eval.
passes(p) ==
    LET cols_ok ==
            /\ Range(outputs) \subseteq Columns(df_mean)
            /\ Range(outputs) \subseteq Columns(df_std)
            /\ draws_test_data(p) => Range(outputs) \subseteq Columns(df_eval)
        rows == Min(df_mean.rows,
                    Min(df_std.rows,
                        IF draws_test_data(p) THEN df_eval.rows
                        ELSE df_mean.rows))
    IN  IF cols_ok THEN Min(p.number_of_model_examples, rows) ELSE 0

plot_results ==
    /\ AtCell("plot_results")
    /\ \E p \in PlotParams :
          /\ params' = p
          /\ artists' = legend_placeholder(p)
                          \o training_artists(number_of_training_examples)
                          \o model_loop(p, passes(p))
          /\ IF passes(p) = p.number_of_model_examples
             THEN Completes ELSE Raises
    /\ UNCHANGED <<call_vars, remote_vars, config_vars, data_vars, uploaded,
                   train_vars, pred_vars>>

Next ==
    \/ parameters
    \/ load
    \/ dataset_upload
    \/ list_datasets
    \/ dataset_summarise
    \/ columns
    \/ emulator_train
    \/ list_emulators
    \/ emulator_summarise
    \/ emulator_predict
    \/ plot_examples
    \/ plot_results
    \/ emulator_delete
    \/ dataset_delete
    \/ returns
    \/ raises

Spec == Init /\ [][Next]_vars

(***************************************************************************)
(* Vocabulary of the properties.                                           *)
(***************************************************************************)
ExpectedOrder ==
    <<"dataset.upload", "list_datasets", "dataset.summarise",
      "emulator.train", "list_emulators", "emulator.summarise",
      "emulator.predict", "emulator.delete", "dataset.delete">>

IsPrefix(s, t) == Len(s) <= Len(t) /\ \A i \in DOMAIN s : s[i] = t[i]

Occurrences(op, s) == Cardinality({i \in DOMAIN s : s[i] = op})

Issued(op) == op \in Range(log)

\* the final plot ran to its plt.legend() and plt.show()
PlotShown ==
    /\ params.number_of_model_examples >= 1
    /\ failed_at # "plot_results"

Labelled(label) == {i \in DOMAIN artists : artists[i].label = label}

TestCurves ==
    {i \in DOMAIN artists :
        artists[i].kind = "plot" /\ artists[i].color = "black"}

ModelCurves ==
    {i \in DOMAIN artists : artists[i].color = "model_color"}

Declared == Range(train_request.inputs) \cup Range(train_request.outputs)

(***************************************************************************)
(* C1: the remote operations of a run are issued in the order upload,      *)
(* list_datasets, dataset.summarise, train, list_emulators,                *)
(* emulator.summarise, predict, emulator.delete, dataset.delete; none is   *)
(* issued twice, at most one request is outstanding and it is the one      *)
(* issued last, and a run that reaches its end has issued all nine.        *)
(***************************************************************************)
C1_RemoteOrder ==
    /\ IsPrefix(log, ExpectedOrder)
    /\ Cardinality(inflight) <= 1
    /\ inflight # {} => (log # <<>> /\ inflight = {log[Len(log)]})
    /\ status = "done" => (log = ExpectedOrder /\ inflight = {})

C1_Witness == status = "done" /\ Len(log) = 9

(***************************************************************************)
(* C2: an emulator resource appears only when emulator.train returns;      *)
(* emulator.summarise and emulator.predict are issued after the train      *)
(* request and before emulator.delete, while the emulator exists; nothing  *)
(* is asked of the emulator after emulator.delete.                         *)
(***************************************************************************)
EmulatorOps ==
    {"emulator.train", "emulator.summarise", "emulator.predict",
     "emulator.delete"}

C2_EmulatorUse ==
    /\ \A i \in DOMAIN log :
          log[i] \in {"emulator.summarise", "emulator.predict"} =>
              /\ \E j \in 1 .. (i - 1) : log[j] = "emulator.train"
              /\ \A j \in 1 .. (i - 1) : log[j] # "emulator.delete"
    /\ \A i \in DOMAIN log :
          log[i] = "emulator.delete" =>
              \A j \in (i + 1) .. Len(log) : log[j] \notin EmulatorOps
    /\ inflight \cap {"emulator.summarise", "emulator.predict"} # {} =>
          emulator_id \in emulators

C2_EmulatorCreation ==
    ~(emulators' \subseteq emulators) => "emulator.train" \in inflight

C2_EmulatorLifecycle == [](C2_EmulatorUse) /\ [][C2_EmulatorCreation]_vars

C2_Witness == "emulator.predict" \in inflight /\ emulator_id \in emulators

(***************************************************************************)
(* C3: a dataset resource appears only when dataset.upload returns and     *)
(* disappears only when dataset.delete returns; dataset.summarise and      *)
(* emulator.train are issued after the upload and before dataset.delete,   *)
(* while the dataset exists; dataset.delete is issued after                *)
(* emulator.delete, when the emulator is gone.                             *)
(***************************************************************************)
C3_DatasetUse ==
    /\ \A i \in DOMAIN log :
          log[i] \in {"dataset.summarise", "emulator.train"} =>
              /\ \E j \in 1 .. (i - 1) : log[j] = "dataset.upload"
              /\ \A j \in 1 .. (i - 1) : log[j] # "dataset.delete"
    /\ inflight \cap {"dataset.summarise", "emulator.train"} # {} =>
          /\ dataset_id \in datasets
          /\ "emulator.train" \in inflight => train_request.dataset \in datasets
    /\ \A i \in DOMAIN log :
          log[i] = "dataset.delete" =>
              \E j \in 1 .. (i - 1) : log[j] = "emulator.delete"
    /\ "dataset.delete" \in inflight => emulator_id \notin emulators

C3_DatasetChange ==
    /\ ~(datasets' \subseteq datasets) => "dataset.upload" \in inflight
    /\ ~(datasets \subseteq datasets') => "dataset.delete" \in inflight

C3_DatasetLifecycle == [](C3_DatasetUse) /\ [][C3_DatasetChange]_vars

C3_Witness ==
    /\ "dataset.delete" \in inflight
    /\ dataset_id \in datasets
    /\ emulator_id \notin emulators

(***************************************************************************)
(* C4, as claimed: once emulator.train is called, every declared input and *)
(* output column is a column of the uploaded table, whatever the files.    *)
(***************************************************************************)
C4_DeclaredColumnsUploaded ==
    Issued("emulator.train") => Declared \subseteq Columns(uploaded)

(***************************************************************************)
(* C4, amended: once emulator.train is called, the table uploaded is       *)
(* df_train, the dataset named is the uploaded one, and the declared       *)
(* columns are all columns of the uploaded table exactly when the training *)
(* file holds E1, E2, E3, n1, n2 and at least len(df_grid) y columns.      *)
(***************************************************************************)
C4_DeclaredColumnsWhenFilesAgree ==
    Issued("emulator.train") =>
        /\ uploaded = df_train
        /\ train_request.dataset = dataset_id
        /\ Declared \subseteq Columns(uploaded) <=>
              /\ {<<"E", 1>>, <<"E", 2>>, <<"E", 3>>, <<"n", 1>>, <<"n", 2>>}
                     \subseteq Columns(df_train)
              /\ df_grid <= df_train.ny

C4_Witness ==
    /\ Issued("emulator.train")
    /\ Declared \subseteq Columns(uploaded)
    /\ Len(train_request.outputs) = df_grid
    /\ df_grid > 0

(***************************************************************************)
(* C5: in the final plot, with plot_eval true and file_eval the test.csv   *)
(* of emulator_dir, a test curve is drawn for each plotted example, next   *)
(* to that example's model prediction.                                     *)
(***************************************************************************)
C5_TestDataDrawn ==
    (/\ PlotShown
     /\ params.plot_eval
     /\ file_eval = os_path_join(emulator_dir, s_test_csv)
     /\ params.plot_model_mean \/ params.plot_model_bands
                               \/ params.plot_model_blur) =>
        /\ Cardinality(TestCurves) = params.number_of_model_examples
        /\ Cardinality(ModelCurves) >= params.number_of_model_examples

(***************************************************************************)
(* C6: a remote call that raises was issued once, the run stops in that    *)
(* cell, no later remote operation is issued, and nothing at all happens   *)
(* after a cell has raised; the resources created before stay on the       *)
(* service unless their delete had been issued.                            *)
(***************************************************************************)
C6_StopsAtFailure ==
    failed_at \in Range(ExpectedOrder) =>
        /\ status = "failed"
        /\ inflight = {}
        /\ log # <<>> /\ log[Len(log)] = failed_at
        /\ Occurrences(failed_at, log) = 1
        /\ IsPrefix(log, ExpectedOrder)
        /\ (Issued("list_datasets") /\ ~Issued("dataset.delete")) =>
              dataset_id \in datasets
        /\ (Issued("list_emulators") /\ ~Issued("emulator.delete")) =>
              emulator_id \in emulators

C6_NothingAfterFailure == failed_at = ""

C6_NoHandlingNoRetry ==
    [](C6_StopsAtFailure) /\ [][C6_NothingAfterFailure]_vars

C6_Witness ==
    /\ status = "failed"
    /\ failed_at = "emulator.predict"
    /\ dataset_id \in datasets
    /\ emulator_id \in emulators

(***************************************************************************)
(* C10: in the final plot, whenever one of plot_model_mean,                *)
(* plot_model_bands, plot_model_blur is set, exactly one artist carries    *)
(* the label "Model predictions".                                          *)
(***************************************************************************)
C10_OneModelLegendEntry ==
    (/\ PlotShown
     /\ params.plot_model_mean \/ params.plot_model_bands
                               \/ params.plot_model_blur) =>
        Cardinality(Labelled("Model predictions")) = 1

====
